---------------------------- MODULE Spec2Model ----------------------------
(***************************************************************************)
(* MatDialogRef (src/lib/dialog/dialog-ref.ts): the handle returned when a *)
(* dialog is opened.  The model follows one handle through its lifecycle   *)
(* (constructor subscriptions, close(), the animation, keydown and         *)
(* navigation events it reacts to), the process-wide id counter over       *)
(* several constructions, and updatePosition on the position strategy.     *)
(*                                                                         *)
(* The rxjs Subject, the overlay, the container and the Location service   *)
(* are collaborators outside the file; they are modelled by the contract   *)
(* the handle relies on.                                                   *)
(***************************************************************************)
EXTENDS Naturals, Sequences, FiniteSets, TLC

VARIABLES
    uniqueId,                  \* module-level counter for unique dialog ids
    handles,                   \* handles constructed so far, in order
    config,                    \* _containerInstance._config
    hasLocation,               \* whether a Location was passed to the constructor
    componentInstance,         \* MatDialogRef.componentInstance
    disableClose,              \* MatDialogRef.disableClose
    afterOpen,                 \* Subject _afterOpen
    afterClosed,               \* Subject _afterClosed
    beforeClose,               \* Subject _beforeClose
    afterClosedSeen,           \* the handle's state as the afterClosed observers were notified
    beforeCloseSeen,           \* the handle's state as the beforeClose observers were notified
    result,                    \* _result
    locationChanges,           \* _locationChanges subscription
    enterDoneSub,              \* the one-shot 'done'/'enter' subscription is live
    exitDoneSub,               \* the one-shot 'done'/'exit' subscription is live
    closeSubs,                 \* live one-shot 'start' subscriptions made by close(), each with its dialogResult
    overlayDisposeCalls,       \* calls of _overlayRef.dispose()
    overlayDetachCalls,        \* calls of _overlayRef.detachBackdrop()
    overlayUpdatePositionCalls,\* calls of _overlayRef.updatePosition()
    strategyCalls,             \* calls made on the position strategy, in order
    returned,                  \* value returned by the last fluent method
    lastPosition,              \* argument of the last updatePosition call
    lastSize,                  \* arguments of the last updateSize call
    containerState,            \* container's _state
    startExitCalls,            \* calls of _containerInstance._startExitAnimation()
    animBound,                 \* state the animation trigger was last rendered with
    animQueue,                 \* animation callbacks scheduled and not yet delivered
    animEvents,                \* animation-state events delivered so far
    enterDoneCount,            \* 'done'/'enter' events delivered so far
    exitDoneCount,             \* 'done'/'exit' events delivered so far
    lastOp                     \* the stimulus handled by the last step

idVars == <<uniqueId, handles>>
envVars == <<config, hasLocation>>
subjectVars == <<afterOpen, afterClosed, beforeClose, afterClosedSeen, beforeCloseSeen>>
handleVars == <<componentInstance, result, locationChanges, enterDoneSub, exitDoneSub, closeSubs>>
overlayVars == <<overlayDisposeCalls, overlayDetachCalls>>
positionVars == <<overlayUpdatePositionCalls, strategyCalls, returned, lastPosition, lastSize>>
containerVars == <<containerState, startExitCalls>>
animVars == <<animBound, animQueue>>
countVars == <<animEvents, enterDoneCount, exitDoneCount>>

vars == <<uniqueId, handles, config, hasLocation, componentInstance, disableClose,
          afterOpen, afterClosed, beforeClose, afterClosedSeen, beforeCloseSeen,
          result, locationChanges,
          enterDoneSub, exitDoneSub, closeSubs, overlayDisposeCalls,
          overlayDetachCalls, overlayUpdatePositionCalls, strategyCalls,
          returned, lastPosition, lastSize, containerState, startExitCalls, animBound,
          animQueue, animEvents, enterDoneCount, exitDoneCount, lastOp>>

---------------------------------------------------------------------------
(* Bounds of the model. *)

\* close() invocations (programmatic, escape key, navigation) in one run.
MaxClose == 3

\* Animation-state events the unconstrained container of SpecAnyEvents delivers.
MaxEvents == 4

\* Handles constructed in one process run.
MaxHandles == 4

\* updatePosition and updateSize calls in one run.
MaxPositionUpdates == 2
MaxObservers == 2

---------------------------------------------------------------------------
(* Values. *)

\* The JavaScript value undefined (an omitted argument, an unset field).
Undefined == "undefined"

\* A result a caller passes to close(); close() with no argument passes undefined.
Results == {"a"}

CloseArgs == Results \cup {Undefined}

\* ESCAPE of @angular/cdk/keycodes.
ESCAPE == 27

\* The escape key and one other key (enter).
KeyCodes == {ESCAPE, 13}

Phases == {"start", "done"}

ToStates == {"void", "enter", "exit"}

AnimationEvents == [phaseName : Phases, toState : ToStates]

\* The stimulus of a step; unused fields keep their defaults.
Op(name) == [op |-> name, arg |-> Undefined, keyCode |-> 0, phaseName |-> "-", toState |-> "-"]

---------------------------------------------------------------------------
(* rxjs Subject: next() and complete() on a stopped subject do nothing;
   otherwise they notify every observer.  An observer is kept as the log of
   what it received, with what the subject had done when it subscribed. *)

NewSubject == [emitted |-> <<>>, isStopped |-> FALSE, completions |-> 0, observers |-> <<>>]

NextNotification(v) == [kind |-> "next", value |-> v]

CompleteNotification == [kind |-> "complete", value |-> Undefined]

\* Every observer of the subject receives the notification.
Notify(observers, notification) ==
    [i \in DOMAIN observers |->
        [observers[i] EXCEPT !.log = Append(@, notification)]]

SubjectNext(s, v) ==
    IF s.isStopped THEN s
    ELSE [s EXCEPT !.emitted = Append(@, v),
                   !.observers = Notify(@, NextNotification(v))]

SubjectComplete(s) ==
    IF s.isStopped THEN s
    ELSE [s EXCEPT !.isStopped = TRUE, !.completions = @ + 1,
                   !.observers = Notify(@, CompleteNotification)]

\* subscribe(): a stopped subject completes the new observer at once and
\* replays no value.
SubjectSubscribe(s) ==
    [s EXCEPT !.observers = Append(@,
        [emittedBefore |-> Len(s.emitted), stoppedBefore |-> s.isStopped,
         log |-> IF s.isStopped THEN <<CompleteNotification>> ELSE <<>>])]

---------------------------------------------------------------------------
(* Construction. *)

\* let uniqueId = 0
UniqueIdInitial == 0

\* The default of the constructor's id parameter.
DefaultId(n) == "mat-dialog-" \o ToString(n)

\* Ids a caller may pass as the override.
IdOverrides == {"mat-dialog-0", "mat-dialog-1", "my-dialog"}

IdArgs == IdOverrides \cup {Undefined}

\* The id parameter: the default is evaluated, and the counter post-incremented,
\* only when no id is passed.  fromCounter records whether the id came from
\* the counter.
ConstructorIdAlwaysIncrement(counter, idArg) ==
    IF idArg = Undefined
    THEN [id |-> DefaultId(counter), uniqueId |-> counter + 1, fromCounter |-> TRUE]
    ELSE [id |-> idArg, uniqueId |-> counter + 1, fromCounter |-> FALSE]

ConstructorId(counter, idArg) ==
    IF idArg = Undefined
    THEN [id |-> DefaultId(counter), uniqueId |-> counter + 1, fromCounter |-> TRUE]
    ELSE [id |-> idArg, uniqueId |-> counter, fromCounter |-> FALSE]

\* The handle's id and the id written onto its container (_containerInstance._id = id).
NewHandle(k) == [id |-> k.id, containerId |-> k.id, fromCounter |-> k.fromCounter]

\* The location subscription made by the constructor; Subscription.EMPTY otherwise.
ConstructorLocationChanges(location) == IF location THEN "open" ELSE "EMPTY"

NoPosition == [given |-> FALSE, left |-> Undefined, right |-> Undefined,
               top |-> Undefined, bottom |-> Undefined]

NoSize == [width |-> Undefined, height |-> Undefined]

\* What an observer notified by next() finds: the value and the state of the
\* handle and the overlay at that moment.  No observer is notified at first.
NotNotified ==
    [notified |-> FALSE, value |-> Undefined, overlayDisposeCalls |-> 0,
     overlayDetachCalls |-> 0, locationChanges |-> "EMPTY",
     componentInstance |-> "component", isStopped |-> FALSE]

\* The state once the first handle of the process has been constructed and the
\* opener has attached the component instance.
Init ==
    /\ config \in [disableClose : BOOLEAN, closeOnNavigation : BOOLEAN]
    /\ hasLocation \in BOOLEAN
    /\ LET k == ConstructorId(UniqueIdInitial, Undefined) IN
         /\ uniqueId = k.uniqueId
         /\ handles = <<NewHandle(k)>>
    /\ componentInstance = "component"
    /\ disableClose = config.disableClose
    /\ afterOpen = NewSubject
    /\ afterClosed = NewSubject
    /\ beforeClose = NewSubject
    /\ afterClosedSeen = NotNotified
    /\ beforeCloseSeen = NotNotified
    /\ result = Undefined
    /\ locationChanges = ConstructorLocationChanges(hasLocation)
    /\ enterDoneSub = TRUE
    /\ exitDoneSub = TRUE
    /\ closeSubs = <<>>
    /\ overlayDisposeCalls = 0
    /\ overlayDetachCalls = 0
    /\ overlayUpdatePositionCalls = 0
    /\ strategyCalls = <<>>
    /\ returned = "none"
    /\ lastPosition = NoPosition
    /\ lastSize = NoSize
    /\ containerState = "enter"
    /\ startExitCalls = 0
    /\ animBound = "void"
    /\ animQueue = <<>>
    /\ animEvents = 0
    /\ enterDoneCount = 0
    /\ exitDoneCount = 0
    /\ lastOp = Op("construct")

\* A further handle is constructed (its own lifecycle is not followed).
Construct(idArg) ==
    /\ Len(handles) < MaxHandles
    /\ LET k == ConstructorId(uniqueId, idArg) IN
         /\ uniqueId' = k.uniqueId
         /\ handles' = Append(handles, NewHandle(k))
    /\ lastOp' = [Op("construct") EXCEPT !.arg = idArg]
    /\ UNCHANGED <<envVars, disableClose, subjectVars, handleVars, overlayVars,
                   positionVars, containerVars, animVars, countVars>>

---------------------------------------------------------------------------
(* The subscribers of _containerInstance._animationStateChanged. *)

\* filter(done, enter), take(1): _afterOpen.next(); _afterOpen.complete()
AfterOpenSubscriberAnyDone(event) ==
    IF enterDoneSub /\ event.phaseName = "done"
    THEN /\ afterOpen' = SubjectComplete(SubjectNext(afterOpen, Undefined))
         /\ enterDoneSub' = FALSE
    ELSE UNCHANGED <<afterOpen, enterDoneSub>>

AfterOpenSubscriberUnlessClosed(event) ==
    IF enterDoneSub /\ event.phaseName = "done" /\ event.toState = "enter"
    THEN /\ afterOpen' = IF afterClosed.isStopped THEN afterOpen
                         ELSE SubjectComplete(SubjectNext(afterOpen, Undefined))
         /\ enterDoneSub' = FALSE
    ELSE UNCHANGED <<afterOpen, enterDoneSub>>

AfterOpenSubscriber(event) ==
    IF enterDoneSub /\ event.phaseName = "done" /\ event.toState = "enter"
    THEN /\ afterOpen' = SubjectComplete(SubjectNext(afterOpen, Undefined))
         /\ enterDoneSub' = FALSE
    ELSE UNCHANGED <<afterOpen, enterDoneSub>>

\* What an observer notified by next() finds.
Notified(st, value) ==
    [notified |-> TRUE, value |-> value,
     overlayDisposeCalls |-> st.overlayDisposeCalls,
     overlayDetachCalls |-> st.overlayDetachCalls,
     locationChanges |-> st.locationChanges,
     componentInstance |-> st.componentInstance,
     isStopped |-> st.subject.isStopped]

\* The state a subscriber's statements act on, with the subject it emits on.
HandlerState(subject, seen) ==
    [overlayDisposeCalls |-> overlayDisposeCalls,
     overlayDetachCalls |-> overlayDetachCalls,
     locationChanges |-> locationChanges,
     componentInstance |-> componentInstance,
     subject |-> subject,
     seen |-> seen]

\* One statement of a subscriber.  next() notifies the observers before it
\* returns, unless the subject is stopped.
Statement(st, stmt, value) ==
    CASE stmt = "dispose" ->
           [st EXCEPT !.overlayDisposeCalls = @ + 1]
      [] stmt = "unsubscribe" ->
           [st EXCEPT !.locationChanges = IF @ = "open" THEN "closed" ELSE @]
      [] stmt = "next" ->
           [st EXCEPT !.subject = SubjectNext(@, value),
                      !.seen = IF st.subject.isStopped THEN @ ELSE Notified(st, value)]
      [] stmt = "complete" ->
           [st EXCEPT !.subject = SubjectComplete(@)]
      [] stmt = "clear" ->
           [st EXCEPT !.componentInstance = "null"]
      [] stmt = "detachBackdrop" ->
           [st EXCEPT !.overlayDetachCalls = @ + 1]

\* The statements of a subscriber run in order.
RECURSIVE RunStatements(_, _, _)
RunStatements(st, stmts, value) ==
    IF stmts = <<>> THEN st
    ELSE RunStatements(Statement(st, Head(stmts), value), Tail(stmts), value)

\* The 'done'/'exit' subscriber: dispose(); unsubscribe(); next(_result);
\* complete(); componentInstance = null.
AfterClosedStatementsClearFirst ==
    <<"clear", "dispose", "unsubscribe", "next", "complete">>

AfterClosedStatements ==
    <<"dispose", "unsubscribe", "next", "complete", "clear">>

\* filter(done, toState), take(1) when once: the statements run on a match.
AfterClosedRun(event, toState, stmts, once) ==
    IF exitDoneSub /\ event.phaseName = "done" /\ event.toState = toState
    THEN LET st == RunStatements(HandlerState(afterClosed, afterClosedSeen), stmts, result) IN
           /\ overlayDisposeCalls' = st.overlayDisposeCalls
           /\ locationChanges' = st.locationChanges
           /\ afterClosed' = st.subject
           /\ afterClosedSeen' = st.seen
           /\ componentInstance' = st.componentInstance
           /\ exitDoneSub' = ~once
    ELSE UNCHANGED <<overlayDisposeCalls, locationChanges, afterClosed,
                     afterClosedSeen, componentInstance, exitDoneSub>>

\* filter(done, exit), take(1): dispose, unsubscribe, next(_result), complete, clear.
AfterClosedSubscriberKeepsLocation(event) ==
    AfterClosedRun(event, "exit", <<"dispose", "next", "complete", "clear">>, TRUE)

AfterClosedSubscriberWrongState(event) ==
    AfterClosedRun(event, "void", AfterClosedStatements, TRUE)

AfterClosedSubscriberNoTake(event) ==
    AfterClosedRun(event, "exit", AfterClosedStatements, FALSE)

AfterClosedSubscriber(event) ==
    AfterClosedRun(event, "exit", AfterClosedStatements, TRUE)

\* The 'start' subscriber made by close(): next(dialogResult); complete();
\* detachBackdrop().
BeforeCloseStatementsNoDetach == <<"next", "complete">>

BeforeCloseStatements == <<"next", "complete", "detachBackdrop">>

\* One subscription made by close() runs with the dialogResult of its call.
BeforeCloseEmitNoComplete(st, dialogResult) ==
    RunStatements(st, <<"next", "detachBackdrop">>, dialogResult)

BeforeCloseEmit(st, dialogResult) ==
    RunStatements(st, BeforeCloseStatements, dialogResult)

\* The subscriptions made by close() run in the order they were made.
RECURSIVE BeforeCloseEmitAll(_, _)
BeforeCloseEmitAll(st, subs) ==
    IF subs = <<>> THEN st
    ELSE BeforeCloseEmitAll(BeforeCloseEmit(st, Head(subs)), Tail(subs))

\* filter(start), take(1), once per close() call: emit, complete, detachBackdrop.
BeforeCloseSubscribers(event) ==
    IF event.phaseName = "start"
    THEN LET st == BeforeCloseEmitAll(HandlerState(beforeClose, beforeCloseSeen), closeSubs) IN
           /\ beforeClose' = st.subject
           /\ beforeCloseSeen' = st.seen
           /\ overlayDetachCalls' = st.overlayDetachCalls
           /\ closeSubs' = <<>>
    ELSE UNCHANGED <<beforeClose, beforeCloseSeen, overlayDetachCalls, closeSubs>>

\* _animationStateChanged emits event: every live subscriber sees it.
AnimationStateChanged(event) ==
    /\ AfterOpenSubscriber(event)
    /\ AfterClosedSubscriber(event)
    /\ BeforeCloseSubscribers(event)
    /\ animEvents' = animEvents + 1
    /\ enterDoneCount' = enterDoneCount +
           (IF event.phaseName = "done" /\ event.toState = "enter" THEN 1 ELSE 0)
    /\ exitDoneCount' = exitDoneCount +
           (IF event.phaseName = "done" /\ event.toState = "exit" THEN 1 ELSE 0)
    /\ lastOp' = [Op("animation") EXCEPT !.phaseName = event.phaseName,
                                         !.toState = event.toState]

---------------------------------------------------------------------------
(* close() *)

\* _containerInstance._startExitAnimation()
StartExitAnimation ==
    /\ containerState' = "exit"
    /\ startExitCalls' = startExitCalls + 1

CloseBodyUnlessDisabled(dialogResult) ==
    IF disableClose
    THEN UNCHANGED <<result, closeSubs, containerVars>>
    ELSE /\ result' = dialogResult
         /\ closeSubs' = Append(closeSubs, dialogResult)
         /\ StartExitAnimation

CloseBodyFirstResultWins(dialogResult) ==
    /\ result' = IF startExitCalls = 0 THEN dialogResult ELSE result
    /\ closeSubs' = Append(closeSubs, dialogResult)
    /\ StartExitAnimation

CloseBodyNoSubscription(dialogResult) ==
    /\ result' = dialogResult
    /\ closeSubs' = closeSubs
    /\ StartExitAnimation

CloseBody(dialogResult) ==
    /\ result' = dialogResult
    /\ closeSubs' = Append(closeSubs, dialogResult)
    /\ StartExitAnimation

\* What a step that does not call close() leaves alone.
NoClose == UNCHANGED <<result, closeSubs, containerVars>>

\* A caller invokes close(dialogResult).
Close(dialogResult) ==
    /\ startExitCalls < MaxClose
    /\ CloseBody(dialogResult)
    /\ lastOp' = [Op("close") EXCEPT !.arg = dialogResult]
    /\ UNCHANGED <<idVars, envVars, disableClose, subjectVars, componentInstance,
                   locationChanges, enterDoneSub, exitDoneSub, overlayVars,
                   positionVars, animVars, countVars>>

---------------------------------------------------------------------------
(* Overlay keydown events. *)

\* filter(event => event.keyCode === ESCAPE && !this.disableClose)
KeydownFilterReadsConfig(keyCode) == keyCode = ESCAPE /\ ~config.disableClose

KeydownFilter(keyCode) == keyCode = ESCAPE /\ ~disableClose

\* .subscribe(() => this.close())
KeydownSubscriber(keyCode) ==
    IF KeydownFilter(keyCode) THEN CloseBody(Undefined) ELSE NoClose

\* The overlay delivers a keydown event; its stream ends when it is disposed.
KeydownEvent(keyCode) ==
    /\ overlayDisposeCalls = 0
    /\ KeydownFilter(keyCode) => startExitCalls < MaxClose
    /\ KeydownSubscriber(keyCode)
    /\ lastOp' = [Op("keydown") EXCEPT !.keyCode = keyCode]
    /\ UNCHANGED <<idVars, envVars, disableClose, subjectVars, componentInstance,
                   locationChanges, enterDoneSub, exitDoneSub, overlayVars,
                   positionVars, animVars, countVars>>

\* The caller writes the handle's public disableClose field.
SetDisableClose(value) ==
    /\ disableClose' = value
    /\ lastOp' = Op("setDisableClose")
    /\ NoClose
    /\ UNCHANGED <<idVars, envVars, subjectVars, componentInstance,
                   locationChanges, enterDoneSub, exitDoneSub, overlayVars,
                   positionVars, animVars, countVars>>

---------------------------------------------------------------------------
(* Navigation changes. *)

\* location.subscribe(() => { if (config.closeOnNavigation) this.close(); })
LocationSubscriberAlwaysCloses ==
    CloseBody(Undefined)

LocationSubscriber ==
    IF config.closeOnNavigation THEN CloseBody(Undefined) ELSE NoClose

\* The user navigates; the subscriber runs while its subscription is open.
LocationChange ==
    /\ (locationChanges = "open" /\ config.closeOnNavigation) => startExitCalls < MaxClose
    /\ IF locationChanges = "open" THEN LocationSubscriber ELSE NoClose
    /\ lastOp' = Op("navigation")
    /\ UNCHANGED <<idVars, envVars, disableClose, subjectVars, componentInstance,
                   locationChanges, enterDoneSub, exitDoneSub, overlayVars,
                   positionVars, animVars, countVars>>

\* The container's configuration object is changed while the dialog is open.
SetCloseOnNavigation(value) ==
    /\ config' = [config EXCEPT !.closeOnNavigation = value]
    /\ lastOp' = Op("setCloseOnNavigation")
    /\ NoClose
    /\ UNCHANGED <<idVars, hasLocation, disableClose, subjectVars, componentInstance,
                   locationChanges, enterDoneSub, exitDoneSub, overlayVars,
                   positionVars, animVars, countVars>>

---------------------------------------------------------------------------
(* The container's animation.  A change of _state is rendered by the next   *)
(* change detection, which schedules the transition's start and done        *)
(* callbacks; they are delivered in order, start before done.               *)

ContainerRender ==
    /\ overlayDisposeCalls = 0
    /\ animBound # containerState
    /\ animBound' = containerState
    /\ animQueue' = animQueue \o <<[phaseName |-> "start", toState |-> containerState],
                                   [phaseName |-> "done", toState |-> containerState]>>
    /\ lastOp' = Op("render")
    /\ NoClose
    /\ UNCHANGED <<idVars, envVars, disableClose, subjectVars, componentInstance,
                   locationChanges, enterDoneSub, exitDoneSub, overlayVars,
                   positionVars, countVars>>

ContainerDeliver ==
    /\ animQueue # <<>>
    /\ AnimationStateChanged(Head(animQueue))
    /\ animQueue' = Tail(animQueue)
    /\ UNCHANGED <<idVars, envVars, disableClose, result, containerVars,
                   positionVars, animBound>>

\* A container that delivers any animation-state event at any time.
AnyAnimationEvent(event) ==
    /\ animEvents < MaxEvents
    /\ AnimationStateChanged(event)
    /\ UNCHANGED <<idVars, envVars, disableClose, result, containerVars,
                   positionVars, animVars>>

---------------------------------------------------------------------------
(* afterOpen(): the subject as an observable; a caller subscribes to it. *)

\* As if _afterOpen replayed what it emitted to a new observer.
AfterOpenSubscribeReplay ==
    /\ Len(afterOpen.observers) < MaxObservers
    /\ afterOpen' = [afterOpen EXCEPT !.observers = Append(@,
            [emittedBefore |-> Len(afterOpen.emitted),
             stoppedBefore |-> afterOpen.isStopped,
             log |-> [i \in DOMAIN afterOpen.emitted |->
                         NextNotification(afterOpen.emitted[i])]
                     \o (IF afterOpen.isStopped THEN <<CompleteNotification>> ELSE <<>>)])]
    /\ lastOp' = Op("afterOpen")
    /\ UNCHANGED <<idVars, envVars, disableClose, afterClosed, beforeClose,
                   afterClosedSeen, beforeCloseSeen, handleVars, overlayVars,
                   positionVars, containerVars, animVars, countVars>>

AfterOpenSubscribe ==
    /\ Len(afterOpen.observers) < MaxObservers
    /\ afterOpen' = SubjectSubscribe(afterOpen)
    /\ lastOp' = Op("afterOpen")
    /\ UNCHANGED <<idVars, envVars, disableClose, afterClosed, beforeClose,
                   afterClosedSeen, beforeCloseSeen, handleVars, overlayVars,
                   positionVars, containerVars, animVars, countVars>>

---------------------------------------------------------------------------
(* updatePosition *)

\* JavaScript truthiness of an optional string: undefined and '' are falsy.
Truthy(s) == s # Undefined /\ s # ""

Offsets == {Undefined, "", "10px"}

Positions == {NoPosition} \cup
    [given : {TRUE}, left : Offsets, right : Offsets, top : Offsets, bottom : Offsets]

Call(method, arg) == <<method, arg>>

\* if (position && (position.left || position.right)) ... else centerHorizontally()
HorizontalCallLeftOnly(position) ==
    IF position.given /\ Truthy(position.left)
    THEN Call("left", position.left)
    ELSE Call("centerHorizontally", Undefined)

HorizontalCall(position) ==
    IF position.given /\ (Truthy(position.left) \/ Truthy(position.right))
    THEN IF Truthy(position.left)
         THEN Call("left", position.left)
         ELSE Call("right", position.right)
    ELSE Call("centerHorizontally", Undefined)

\* if (position && (position.top || position.bottom)) ... else centerVertically()
VerticalCall(position) ==
    IF position.given /\ (Truthy(position.top) \/ Truthy(position.bottom))
    THEN IF Truthy(position.top)
         THEN Call("top", position.top)
         ELSE Call("bottom", position.bottom)
    ELSE Call("centerVertically", Undefined)

UpdatePosition(position) ==
    /\ overlayUpdatePositionCalls < MaxPositionUpdates
    /\ strategyCalls' = strategyCalls \o <<HorizontalCall(position), VerticalCall(position)>>
    /\ overlayUpdatePositionCalls' = overlayUpdatePositionCalls + 1
    /\ returned' = "this"
    /\ lastPosition' = position
    /\ lastOp' = Op("updatePosition")
    /\ NoClose
    /\ UNCHANGED <<idVars, envVars, disableClose, subjectVars, componentInstance,
                   locationChanges, enterDoneSub, exitDoneSub, overlayVars,
                   animVars, countVars, lastSize>>

---------------------------------------------------------------------------
(* updateSize *)

\* Arguments a caller may pass for width and height (undefined: omitted).
SizeArgs == {Undefined, "", "200px"}

\* A default parameter value replaces undefined only.
DefaultParameter(arg, default) == IF arg = Undefined THEN default ELSE arg

\* this._getPositionStrategy().width(width).height(height)
SizeCallsNoDefault(width, height) ==
    <<Call("width", width), Call("height", height)>>

SizeCalls(width, height) ==
    <<Call("width", DefaultParameter(width, "auto")),
      Call("height", DefaultParameter(height, "auto"))>>

UpdateSize(width, height) ==
    /\ overlayUpdatePositionCalls < MaxPositionUpdates
    /\ strategyCalls' = strategyCalls \o SizeCalls(width, height)
    /\ overlayUpdatePositionCalls' = overlayUpdatePositionCalls + 1
    /\ returned' = "this"
    /\ lastSize' = [width |-> width, height |-> height]
    /\ lastOp' = Op("updateSize")
    /\ NoClose
    /\ UNCHANGED <<idVars, envVars, disableClose, subjectVars, componentInstance,
                   locationChanges, enterDoneSub, exitDoneSub, overlayVars,
                   animVars, countVars, lastPosition>>

---------------------------------------------------------------------------
(* Specifications. *)

\* One handle with a container that follows its animation contract.
Next ==
    \/ \E r \in CloseArgs : Close(r)
    \/ \E k \in KeyCodes : KeydownEvent(k)
    \/ \E b \in BOOLEAN : SetDisableClose(b)
    \/ LocationChange
    \/ \E b \in BOOLEAN : SetCloseOnNavigation(b)
    \/ ContainerRender
    \/ ContainerDeliver

Spec == Init /\ [][Next]_vars

\* Change detection runs and scheduled animation callbacks are delivered.
LiveSpec == Init /\ [][Next]_vars /\ WF_vars(ContainerRender) /\ WF_vars(ContainerDeliver)

\* One handle with close() calls and arbitrary animation-state events.
NextAnyEvents ==
    \/ \E r \in CloseArgs : Close(r)
    \/ \E e \in AnimationEvents : AnyAnimationEvent(e)

SpecAnyEvents == Init /\ [][NextAnyEvents]_vars

\* One handle with subscriptions to afterOpen() and arbitrary animation-state
\* events.
NextObservers ==
    \/ AfterOpenSubscribe
    \/ \E e \in AnimationEvents : AnyAnimationEvent(e)

SpecObservers == Init /\ [][NextObservers]_vars

\* Constructions of further handles.
NextIds == \E idArg \in IdArgs : Construct(idArg)

SpecIds == Init /\ [][NextIds]_vars

\* updatePosition and updateSize calls.
NextPosition ==
    \/ \E p \in Positions : UpdatePosition(p)
    \/ \E w, h \in SizeArgs : UpdateSize(w, h)

SpecPosition == Init /\ [][NextPosition]_vars

---------------------------------------------------------------------------
(* Properties. *)

Emitted(subject) == Len(subject.emitted) > 0

\* A step of the model in which close(dialogResult) ran once.
CloseRan(dialogResult) ==
    /\ result' = dialogResult
    /\ closeSubs' = Append(closeSubs, dialogResult)
    /\ startExitCalls' = startExitCalls + 1
    /\ containerState' = "exit"

\* A step of the model in which close() did not run.
CloseDidNotRun == UNCHANGED <<result, closeSubs, startExitCalls, containerState>>

\* C1: whenever afterClosed has emitted, beforeClose has already emitted.
C1_ClosingBeforeClosed == Emitted(afterClosed) => Emitted(beforeClose)

\* C1 witness: the dialog closed after two close() calls, both channels emitted.
C1_Witness ==
    /\ startExitCalls = 2
    /\ exitDoneCount = 1
    /\ Emitted(afterClosed)
    /\ Emitted(beforeClose)

\* C2: once the dialog has closed, beforeClose has emitted exactly one value
\* and afterClosed has emitted that same value.
C2_SameResultOnBothChannels ==
    Emitted(afterClosed) =>
        /\ Len(beforeClose.emitted) = 1
        /\ afterClosed.emitted = beforeClose.emitted

\* C3: afterOpen has emitted nothing before the first 'done'/'enter' event and
\* exactly one value (and one completion) after it, however many follow.
C3_AfterOpenOnce ==
    /\ Len(afterOpen.emitted) = (IF enterDoneCount > 0 THEN 1 ELSE 0)
    /\ afterOpen.completions = (IF enterDoneCount > 0 THEN 1 ELSE 0)

\* C3 witness: two 'done'/'enter' events were delivered, one emission.
C3_Witness == enterDoneCount >= 2 /\ Len(afterOpen.emitted) = 1

\* C4: after the first 'done'/'exit' event componentInstance is null, the
\* overlay has been disposed and the navigation subscription is closed, and a
\* navigation change no longer runs close().
C4_ClosedCleanup ==
    /\ [](exitDoneCount > 0 =>
            /\ componentInstance = "null"
            /\ overlayDisposeCalls = 1
            /\ locationChanges # "open")
    /\ [][(exitDoneCount > 0 /\ lastOp'.op = "navigation") => CloseDidNotRun]_vars

\* C4 witness: a navigation change after the dialog closed, with a location
\* supplied and closeOnNavigation set.
C4_Witness ==
    /\ exitDoneCount > 0
    /\ lastOp.op = "navigation"
    /\ hasLocation
    /\ config.closeOnNavigation

\* C5: a keydown event runs close(undefined) once when the key is escape and the
\* handle's disableClose is false at that moment, and runs no close otherwise.
C5_EscapeCloses ==
    [][lastOp'.op = "keydown" =>
          IF lastOp'.keyCode = ESCAPE /\ ~disableClose
          THEN CloseRan(Undefined)
          ELSE CloseDidNotRun]_vars

\* C5 witness: escape closed a dialog configured with disableClose after the
\* handle's flag was cleared.
C5_Witness ==
    /\ lastOp.op = "keydown"
    /\ lastOp.keyCode = ESCAPE
    /\ config.disableClose
    /\ ~disableClose
    /\ startExitCalls = 1
    /\ result = Undefined

\* C6: with a location supplied and the dialog not yet closed, a navigation
\* change runs close(undefined) iff closeOnNavigation is true at that moment,
\* and otherwise changes nothing of the handle; with no location supplied the
\* handle holds no navigation subscription.
C6_NavigationCloses ==
    /\ [][lastOp'.op = "navigation" =>
            IF hasLocation /\ exitDoneCount = 0 /\ config.closeOnNavigation
            THEN CloseRan(Undefined) /\ UNCHANGED <<subjectVars, overlayVars>>
            ELSE CloseDidNotRun /\ UNCHANGED <<subjectVars, overlayVars>>]_vars
    /\ [](~hasLocation => locationChanges = "EMPTY")

\* C6 witness: a navigation change closed the dialog.
C6_Witness ==
    /\ lastOp.op = "navigation"
    /\ hasLocation
    /\ config.closeOnNavigation
    /\ startExitCalls = 1
    /\ closeSubs = <<Undefined>>

AtMostOnce(subject) == Len(subject.emitted) <= 1 /\ subject.completions <= 1

Silent(subject) == subject.isStopped => subject'.emitted = subject.emitted

\* C7: each of the three channels emits at most one value and completes at
\* most once, and emits nothing once it has completed.
C7_ChannelsOneShot ==
    /\ [](AtMostOnce(afterOpen) /\ AtMostOnce(afterClosed) /\ AtMostOnce(beforeClose))
    /\ [][Silent(afterOpen) /\ Silent(afterClosed) /\ Silent(beforeClose)]_vars

\* C7 witness: repeated close() calls and repeated done events, all three
\* channels completed.
C7_Witness ==
    /\ startExitCalls >= 2
    /\ exitDoneCount >= 2
    /\ afterOpen.isStopped
    /\ afterClosed.isStopped
    /\ beforeClose.isStopped

\* Handles among the first i whose id came from the counter.
FromCounter(i) == {j \in 1..i : handles[j].fromCounter}

\* C8 (original): the ids of all handles are pairwise distinct, counter ids
\* follow the counter from 0, and every id is written onto its container.
C8_AllIdsDistinct ==
    /\ \A i, j \in 1..Len(handles) : i < j => handles[i].id # handles[j].id
    /\ \A i \in 1..Len(handles) : handles[i].containerId = handles[i].id

\* C8 (amended): the ids taken from the counter are mat-dialog-0, mat-dialog-1,
\* ... in construction order (so distinct and increasing), an id override
\* consumes no counter value, and every handle's id is written onto its container.
C8_CounterIdsIncrease ==
    /\ uniqueId = Cardinality(FromCounter(Len(handles)))
    /\ \A i \in 1..Len(handles) :
          /\ handles[i].containerId = handles[i].id
          /\ handles[i].fromCounter =>
                handles[i].id = DefaultId(Cardinality(FromCounter(i)) - 1)
    /\ \A i, j \in FromCounter(Len(handles)) : i < j => handles[i].id # handles[j].id

\* C8 witness: a counter id was assigned after an override.
C8_Witness ==
    \E i, j \in 1..Len(handles) :
        /\ i < j
        /\ ~handles[i].fromCounter
        /\ handles[j].fromCounter
        /\ handles[j].id = "mat-dialog-1"

Closed ==
    /\ Len(afterClosed.emitted) = 1
    /\ afterClosed.isStopped
    /\ overlayDisposeCalls > 0
    /\ componentInstance = "null"

\* C9: with change detection and animation callbacks delivered fairly, every
\* close() call is followed by afterClosed emitting and completing, the
\* overlay being disposed and componentInstance being cleared.
C9_CloseLeadsToClosed == (startExitCalls > 0) ~> Closed

\* C9 witness: the dialog closed after a close() call.
C9_Witness == startExitCalls > 0 /\ Closed /\ lastOp.op = "animation"

\* "Given" read as present: any value other than undefined.
GivenHorizontal(position) ==
    IF position.given /\ position.left # Undefined THEN Call("left", position.left)
    ELSE IF position.given /\ position.right # Undefined THEN Call("right", position.right)
    ELSE Call("centerHorizontally", Undefined)

GivenVertical(position) ==
    IF position.given /\ position.top # Undefined THEN Call("top", position.top)
    ELSE IF position.given /\ position.bottom # Undefined THEN Call("bottom", position.bottom)
    ELSE Call("centerVertically", Undefined)

\* "Given" read as present and not the empty string.
NonEmpty(s) == s \notin {Undefined, ""}

NonEmptyHorizontal(position) ==
    IF position.given /\ NonEmpty(position.left) THEN Call("left", position.left)
    ELSE IF position.given /\ NonEmpty(position.right) THEN Call("right", position.right)
    ELSE Call("centerHorizontally", Undefined)

NonEmptyVertical(position) ==
    IF position.given /\ NonEmpty(position.top) THEN Call("top", position.top)
    ELSE IF position.given /\ NonEmpty(position.bottom) THEN Call("bottom", position.bottom)
    ELSE Call("centerVertically", Undefined)

\* C10 (original): updatePosition applies left(left) if left is present, else
\* right(right) if right is present, else centerHorizontally(); likewise
\* top/bottom/centerVertically(); then one overlay updatePosition(), and
\* returns the handle.
C10_UpdatePositionGiven ==
    [][lastOp'.op = "updatePosition" =>
          /\ strategyCalls' = strategyCalls \o
                <<GivenHorizontal(lastPosition'), GivenVertical(lastPosition')>>
          /\ overlayUpdatePositionCalls' = overlayUpdatePositionCalls + 1
          /\ returned' = "this"]_vars

\* C10 (amended): as the original, with an edge counted as given only when it
\* is present and not the empty string.
C10_UpdatePositionNonEmpty ==
    [][lastOp'.op = "updatePosition" =>
          /\ strategyCalls' = strategyCalls \o
                <<NonEmptyHorizontal(lastPosition'), NonEmptyVertical(lastPosition')>>
          /\ overlayUpdatePositionCalls' = overlayUpdatePositionCalls + 1
          /\ returned' = "this"]_vars

\* C10 witness: a second updatePosition with left '' and right '10px' applied
\* right('10px') and centerVertically().
C10_Witness ==
    /\ overlayUpdatePositionCalls = 2
    /\ lastPosition.given
    /\ lastPosition.left = ""
    /\ lastPosition.right = "10px"
    /\ lastPosition.top = Undefined
    /\ lastPosition.bottom = Undefined
    /\ Len(strategyCalls) = 4
    /\ strategyCalls[3] = Call("right", "10px")
    /\ strategyCalls[4] = Call("centerVertically", Undefined)

\* C11: updateSize(w, h) applies width(w) and height(h) to the position
\* strategy, 'auto' standing for an omitted argument, then triggers one
\* overlay updatePosition() and returns the handle.
C11_UpdateSize ==
    [][lastOp'.op = "updateSize" =>
          /\ strategyCalls' = strategyCalls \o
                <<Call("width", IF lastSize'.width = Undefined THEN "auto" ELSE lastSize'.width),
                  Call("height", IF lastSize'.height = Undefined THEN "auto" ELSE lastSize'.height)>>
          /\ overlayUpdatePositionCalls' = overlayUpdatePositionCalls + 1
          /\ returned' = "this"]_vars

\* C11 witness: updateSize('200px') with the height omitted, after an
\* updatePosition call.
C11_Witness ==
    /\ lastOp.op = "updateSize"
    /\ lastSize = [width |-> "200px", height |-> Undefined]
    /\ overlayUpdatePositionCalls = 2
    /\ Len(strategyCalls) = 4
    /\ strategyCalls[3] = Call("width", "200px")
    /\ strategyCalls[4] = Call("height", "auto")

\* C12: beforeClose emits or completes, and the backdrop is detached, only in
\* a step that handles an animation-state event with phaseName 'start' and
\* toState 'exit'.
C12_BeforeCloseOnExitStartOnly ==
    [][(beforeClose' # beforeClose \/ overlayDetachCalls' # overlayDetachCalls) =>
          /\ lastOp'.op = "animation"
          /\ lastOp'.phaseName = "start"
          /\ lastOp'.toState = "exit"]_vars

\* The argument of the close() a step ran: the caller's, or undefined when
\* the escape key or a navigation change ran it.
ClosingArg == IF lastOp'.op = "close" THEN lastOp'.arg ELSE Undefined

\* C13: a close() that follows an earlier close() before the 'done'/'exit'
\* event overwrites the stored result and requests the exit animation once
\* more, and afterClosed then emits the result stored last.
C13_SecondCloseOverwrites ==
    /\ [][(startExitCalls >= 1 /\ exitDoneCount = 0 /\ closeSubs' # closeSubs
            /\ lastOp'.op \in {"close", "keydown", "navigation"}) =>
              /\ result' = ClosingArg
              /\ startExitCalls' = startExitCalls + 1]_vars
    /\ [][(exitDoneCount = 0 /\ exitDoneCount' = 1) =>
              afterClosed'.emitted = <<result>>]_vars

\* C13 witness: close('a') then a close with no result; the dialog closed with
\* beforeClose having emitted 'a' and afterClosed undefined.
C13_Witness ==
    /\ startExitCalls = 2
    /\ exitDoneCount = 1
    /\ beforeClose.emitted = <<"a">>
    /\ afterClosed.emitted = <<Undefined>>

\* C14: whenever the handle has disposed the overlay, it has already detached
\* the backdrop.
C14_DetachBeforeDispose == overlayDisposeCalls > 0 => overlayDetachCalls > 0

\* C14 witness: the dialog closed after one close(): one detach, one dispose.
C14_Witness ==
    /\ startExitCalls = 1
    /\ overlayDetachCalls = 1
    /\ overlayDisposeCalls = 1

\* C15: the afterClosed observers are notified with the stored result once
\* the overlay is disposed and the navigation subscription cancelled, before
\* afterClosed completes and before componentInstance is cleared; the
\* beforeClose observers are notified before the backdrop is detached.
C15_HandlerOrder ==
    /\ afterClosedSeen.notified =>
          /\ afterClosedSeen.overlayDisposeCalls = 1
          /\ afterClosedSeen.locationChanges # "open"
          /\ ~afterClosedSeen.isStopped
          /\ afterClosedSeen.componentInstance # "null"
          /\ afterClosed.emitted = <<afterClosedSeen.value>>
          /\ afterClosed.isStopped
          /\ componentInstance = "null"
    /\ beforeCloseSeen.notified =>
          /\ beforeCloseSeen.overlayDetachCalls = 0
          /\ ~beforeCloseSeen.isStopped
          /\ overlayDetachCalls > 0

\* C15 witness: both channels notified their observers, with a location
\* supplied.
C15_Witness ==
    /\ afterClosedSeen.notified
    /\ beforeCloseSeen.notified
    /\ hasLocation
    /\ afterClosedSeen.locationChanges = "closed"
    /\ afterClosedSeen.componentInstance = "component"

\* C16: an observer that subscribes to afterOpen() after it emitted and
\* completed receives the completion only and no value; one that subscribed
\* before receives nothing until the opening, then one value and the completion.
C16_AfterOpenLateSubscriber ==
    \A i \in DOMAIN afterOpen.observers :
        LET o == afterOpen.observers[i] IN
        IF o.stoppedBefore
        THEN o.emittedBefore = 1 /\ o.log = <<CompleteNotification>>
        ELSE /\ o.emittedBefore = 0
             /\ o.log = IF afterOpen.isStopped
                        THEN <<NextNotification(Undefined), CompleteNotification>>
                        ELSE <<>>

\* C16 witness: one observer subscribed before the opening and one after it.
C16_Witness ==
    /\ Len(afterOpen.observers) = 2
    /\ ~afterOpen.observers[1].stoppedBefore
    /\ afterOpen.observers[1].log = <<NextNotification(Undefined), CompleteNotification>>
    /\ afterOpen.observers[2].stoppedBefore
    /\ afterOpen.observers[2].log = <<CompleteNotification>>

\* C17: over any sequence of close() calls and animation-state events, with
\* several exit/done events and close() calls after the closing among them,
\* the overlay is disposed at most once and afterClosed emits at most once.
C17_DisposeAndAfterClosedOnce ==
    /\ overlayDisposeCalls <= 1
    /\ Len(afterClosed.emitted) <= 1
    /\ afterClosed.completions <= 1

\* C17 witness: two exit/done events were delivered and close() was called
\* after the closing.
C17_Witness ==
    /\ exitDoneCount >= 2
    /\ lastOp.op = "close"
    /\ overlayDisposeCalls = 1
    /\ afterClosed.emitted = <<Undefined>>
    /\ result = "a"

\* C18: while disableClose is true, a close(r) call by a caller stores r and
\* requests the exit animation, and so does a navigation change with
\* closeOnNavigation true and the navigation subscription open; only the
\* keydown path is gated.
C18_DisableCloseGatesEscapeOnly ==
    [][disableClose =>
          /\ lastOp'.op = "close" => CloseRan(lastOp'.arg)
          /\ (lastOp'.op = "navigation" /\ locationChanges = "open"
                  /\ config.closeOnNavigation) => CloseRan(Undefined)
          /\ lastOp'.op = "keydown" => CloseDidNotRun]_vars

\* C18 witness: with disableClose true, a navigation change and then close('a')
\* each requested the exit animation.
C18_Witness ==
    /\ disableClose
    /\ hasLocation
    /\ config.closeOnNavigation
    /\ lastOp.op = "close"
    /\ startExitCalls = 2
    /\ closeSubs = <<Undefined, "a">>
    /\ result = "a"
    /\ containerState = "exit"

\* C19 (original): once afterClosed has emitted and the overlay is disposed,
\* afterOpen emits no more, whatever animation-state events are delivered.
C19_OpenedNeverAfterClosed ==
    [][(Emitted(afterClosed) /\ overlayDisposeCalls > 0) =>
          afterOpen'.emitted = afterOpen.emitted]_vars

\* C19 (amended): once afterClosed has emitted, afterOpen emits in a step
\* exactly when that step delivers the first 'done'/'enter' event; so the
\* opened notification follows the closed one when the first 'done'/'enter'
\* event is delivered after the 'done'/'exit' event, and only then.
C19_AfterOpenAtFirstEnterDone ==
    [][Emitted(afterClosed) =>
          (afterOpen'.emitted # afterOpen.emitted
             <=> /\ lastOp'.op = "animation"
                 /\ lastOp'.phaseName = "done"
                 /\ lastOp'.toState = "enter"
                 /\ enterDoneCount = 0)]_vars

\* C19 witness: the first 'done'/'enter' event was delivered after the dialog
\* had closed, and afterOpen emitted on it.
C19_Witness ==
    /\ exitDoneCount >= 1
    /\ Emitted(afterClosed)
    /\ overlayDisposeCalls = 1
    /\ enterDoneCount = 1
    /\ lastOp.op = "animation" /\ lastOp.phaseName = "done" /\ lastOp.toState = "enter"
    /\ afterOpen.emitted = <<Undefined>>

============================================================================
